---- MODULE Spec2Model ----
(***************************************************************************)
(* A model of the Food Hunter Discord bot: the saved-list store with its   *)
(* JSON persistence (bot.py), the recommendation pipeline find_food        *)
(* (food_tool.py) and the /eat conversation context (bot.py).              *)
(*                                                                         *)
(* Strings that the code takes apart (restaurant names and the /delete     *)
(* argument, which are compared with == and `in`) are sequences of         *)
(* characters.  A Python dict is a sequence of <<key, value>> pairs with   *)
(* distinct keys, in insertion order.                                      *)
(***************************************************************************)
EXTENDS Integers, Sequences, FiniteSets, Bags, TLC

VARIABLES
    user_saved_lists,   \* bot.py:42   the in-memory saved lists (a dict)
    data_file,          \* bot.py:18   the contents of saved_lists.json
    task,               \* the interaction handlers alive on the event loop (a bag)
    args,               \* food_tool.py:95-103  the arguments of a find_food call
    pc,                 \* where that call is
    origin,             \* food_tool.py:112  (origin_lat, origin_lng)
    res,                \* food_tool.py:128  the text-search response
    matrix,             \* food_tool.py:49   the distance-matrix response
    travel_info,        \* food_tool.py:147
    ret,                \* what find_food returned
    chain_ret,          \* bot.py:130-153  what run_food_chain returned
    user_contexts,      \* bot.py:37   user id -> the user's context dict
    heap,               \* the context dicts that are referenced somewhere
    eat_task            \* the /eat handlers alive on the event loop (a bag)

savedVars == <<user_saved_lists, data_file, task>>
foodVars == <<args, pc, origin, res, matrix, travel_info, ret, chain_ret>>
eatVars == <<user_contexts, heap, eat_task>>
vars == <<savedVars, foodVars, eatVars>>

-----------------------------------------------------------------------------
(* Bounds and input sets *)

\* Number of interaction handlers (asyncio tasks) that can be alive at once.
MaxTasks == 2

\* Discord user ids.
Users == {1, 2}

\* Restaurants shown on the buttons of a RestaurantView: the three fields the
\* callback reads.  Two of them are different places with the same name.
Restaurants ==
    { [name |-> <<"a", "b">>, map_link |-> "L1", rating |-> "4.5 (10 reviews)"],
      [name |-> <<"a", "b">>, map_link |-> "L2", rating |-> "3.9 (7 reviews)"],
      [name |-> <<"b">>,      map_link |-> "L3", rating |-> "4.1 (3 reviews)"] }

\* Arguments of /delete: the empty string, a part of one name, a part of both.
DeleteArgs == { <<>>, <<"a">>, <<"b">> }

NoRestaurant == [name |-> <<>>, map_link |-> "", rating |-> ""]

-----------------------------------------------------------------------------
(* Python values *)

\* str(interaction.user.id)
Str(n) == ToString(n)

\* k in d
DictHas(d, k) == \E i \in 1..Len(d) : d[i][1] = k

DictIndex(d, k) == CHOOSE i \in 1..Len(d) : d[i][1] = k

\* d.get(k, [])
DictGet(d, k) == IF DictHas(d, k) THEN d[DictIndex(d, k)][2] ELSE <<>>

\* d[k] = v : an existing key keeps its place, a new key goes last
DictSet(d, k, v) ==
    IF DictHas(d, k)
    THEN [d EXCEPT ![DictIndex(d, k)] = <<k, v>>]
    ELSE Append(d, <<k, v>>)

\* q in s, for strings
IsSubstring(q, s) ==
    \E i \in 0..(Len(s) - Len(q)) : SubSeq(s, i + 1, i + Len(q)) = q

\* list.remove(x): drops the first element equal to x
ListRemove(l, x) ==
    IF \E i \in 1..Len(l) : l[i] = x
    THEN LET k == CHOOSE i \in 1..Len(l) :
                    /\ l[i] = x
                    /\ \A j \in 1..(i - 1) : l[j] # x
         IN  SubSeq(l, 1, k - 1) \o SubSeq(l, k + 1, Len(l))
    ELSE l

-----------------------------------------------------------------------------
(* Persistence: json.dump / json.load of the whole mapping *)

\* Variant: a user whose array is empty is left out of the text.
RECURSIVE json_dump_skip_empty(_)
json_dump_skip_empty(d) ==
    IF d = <<>> THEN <<>>
    ELSE LET k == d[1][1]
             l == d[1][2]
         IN  (IF l = <<>> THEN <<>>
              ELSE <<[t |-> "key", key |-> k, obj |-> NoRestaurant]>>)
             \o [i \in 1..Len(l) |-> [t |-> "obj", key |-> k, obj |-> l[i]]]
             \o json_dump_skip_empty(Tail(d))

\* The text json.dump writes, as its tokens: a key, then the objects of its
\* array, for every item of the dict in order.
RECURSIVE json_dump(_)
json_dump(d) ==
    IF d = <<>> THEN <<>>
    ELSE LET k == d[1][1]
             l == d[1][2]
         IN  <<[t |-> "key", key |-> k, obj |-> NoRestaurant]>>
             \o [i \in 1..Len(l) |-> [t |-> "obj", key |-> k, obj |-> l[i]]]
             \o json_dump(Tail(d))

\* json.load: a key opens an (empty) array, an object goes to the array of the
\* last key read; a repeated key replaces the earlier value.
RECURSIVE json_load(_, _)
json_load(toks, acc) ==
    IF toks = <<>> THEN acc
    ELSE LET tok == toks[1]
         IN  IF tok.t = "key"
             THEN json_load(Tail(toks), DictSet(acc, tok.key, <<>>))
             ELSE json_load(Tail(toks),
                            DictSet(acc, tok.key,
                                    Append(DictGet(acc, tok.key), tok.obj)))

\* bot.py load_data
load_data(file) ==
    IF file.kind = "json" THEN json_load(file.toks, <<>>)
    ELSE <<>>        \* no file, or JSONDecodeError

\* bot.py save_data: the file after writing the mapping `lists`
save_data(lists) == [kind |-> "json", toks |-> json_dump(lists)]

-----------------------------------------------------------------------------
(* The saved-list handlers.  discord.py runs every interaction handler as a  *)
(* coroutine on one event loop: the code between two awaits runs without     *)
(* interleaving.  Both handlers read and write the store, and call           *)
(* save_data, before their only await (interaction.response.send_message).   *)

\* A handler: what it was called with while it waits to run (pending), and the
\* message it is sending once its body has run (sending): the kind of reply and
\* the name the message text quotes.  Handlers have no identity of their own:
\* the ones alive form a bag.
NewTask(op, u, r, q) ==
    [pc |-> "pending", op |-> op, user |-> u, restaurant |-> r,
     shop_name |-> q, reply |-> "none", reply_name |-> <<>>]

Sending(t, reply, name) ==
    [pc |-> "sending", op |-> t.op, user |-> t.user,
     restaurant |-> NoRestaurant, shop_name |-> <<>>,
     reply |-> reply, reply_name |-> name]

Alive == BagToSet(task)

\* The handler t replaced by its next stage t2.
Advance(t, t2) == (task (-) SetToBag({t})) (+) SetToBag({t2})

\* Variants of the membership test: one compares whole entries, one looks at
\* the newest entry only.
AlreadySavedWholeEntry(saved, restaurant) ==
    \E i \in 1..Len(saved) :
        /\ saved[i].name = restaurant.name
        /\ saved[i].map_link = restaurant.map_link

AlreadySavedNewestOnly(saved, restaurant) ==
    /\ saved # <<>>
    /\ saved[Len(saved)].name = restaurant.name

\* bot.py:68  any(saved['name'] == restaurant['name'] for saved in ...)
AlreadySaved(saved, restaurant) ==
    \E i \in 1..Len(saved) : saved[i].name = restaurant.name

\* bot.py:71-75  the entry appended to the user's list
SavedEntry(restaurant) ==
    [name |-> restaurant.name, map_link |-> restaurant.map_link,
     rating |-> restaurant.rating]

\* Variant: the list is replaced by the new entry alone.
AppendSavedOverwrite(saved, restaurant) == <<[name |-> restaurant.name,
    map_link |-> restaurant.map_link, rating |-> restaurant.rating]>>

\* bot.py:71  user_saved_lists[user_id].append(...)
AppendSaved(saved, restaurant) == Append(saved, SavedEntry(restaurant))

\* Variant: the last matching item.
LastMatch(saved, shop_name) ==
    IF \E i \in 1..Len(saved) : IsSubstring(shop_name, saved[i].name)
    THEN CHOOSE i \in 1..Len(saved) :
            /\ IsSubstring(shop_name, saved[i].name)
            /\ \A j \in (i + 1)..Len(saved) :
                   ~IsSubstring(shop_name, saved[j].name)
    ELSE 0

\* bot.py:236-239  the first item whose name contains the argument (0: none)
FirstMatch(saved, shop_name) ==
    IF \E i \in 1..Len(saved) : IsSubstring(shop_name, saved[i].name)
    THEN CHOOSE i \in 1..Len(saved) :
            /\ IsSubstring(shop_name, saved[i].name)
            /\ \A j \in 1..(i - 1) : ~IsSubstring(shop_name, saved[j].name)
    ELSE 0

\* A user presses a save button of a view: the callback is scheduled.
PressSave ==
    /\ BagCardinality(task) < MaxTasks
    /\ \E u \in Users, r \in Restaurants :
          task' = task (+) SetToBag({NewTask("add", u, r, <<>>)})
    /\ UNCHANGED <<user_saved_lists, data_file>>

\* A user runs /delete: delete_saved is scheduled.
InvokeDelete ==
    /\ BagCardinality(task) < MaxTasks
    /\ \E u \in Users, q \in DeleteArgs :
          task' = task (+) SetToBag({NewTask("delete", u, NoRestaurant, q)})
    /\ UNCHANGED <<user_saved_lists, data_file>>

\* bot.py:61-78  RestaurantView.callback, up to its await
callback(t) ==
    /\ t.pc = "pending"
    /\ t.op = "add"
    /\ LET user_id    == Str(t.user)
           restaurant == t.restaurant
           lists1     == IF DictHas(user_saved_lists, user_id)
                         THEN user_saved_lists
                         ELSE DictSet(user_saved_lists, user_id, <<>>)
           saved      == DictGet(lists1, user_id)
       IN  IF AlreadySaved(saved, restaurant)
           THEN /\ user_saved_lists' = lists1
                /\ UNCHANGED data_file
                /\ task' = Advance(t, Sending(t, "already_present",
                                              restaurant.name))
           ELSE /\ user_saved_lists' =
                       DictSet(lists1, user_id, AppendSaved(saved, restaurant))
                /\ data_file' = save_data(user_saved_lists')
                /\ task' = Advance(t, Sending(t, "added", restaurant.name))

\* bot.py:226-247  delete_saved, up to its await
delete_saved(t) ==
    /\ t.pc = "pending"
    /\ t.op = "delete"
    /\ LET user_id   == Str(t.user)
           saved     == DictGet(user_saved_lists, user_id)
           k         == FirstMatch(saved, t.shop_name)
       IN  IF saved = <<>>
           THEN /\ UNCHANGED <<user_saved_lists, data_file>>
                /\ task' = Advance(t, Sending(t, "empty_list", <<>>))
           ELSE IF k # 0
           THEN /\ user_saved_lists' =
                       DictSet(user_saved_lists, user_id,
                               ListRemove(saved, saved[k]))
                /\ data_file' = save_data(user_saved_lists')
                /\ task' = Advance(t, Sending(t, "removed", saved[k].name))
           ELSE /\ UNCHANGED <<user_saved_lists, data_file>>
                /\ task' = Advance(t, Sending(t, "not_found", t.shop_name))

\* interaction.response.send_message returns: the handler ends.
send_message(t) ==
    /\ t.pc = "sending"
    /\ task' = task (-) SetToBag({t})
    /\ UNCHANGED <<user_saved_lists, data_file>>

\* Contents saved_lists.json can have when the process starts: no file, a
\* file that is not JSON, and files an earlier run of the bot wrote.
R1 == [name |-> <<"a", "b">>, map_link |-> "L1", rating |-> "4.5 (10 reviews)"]
R3 == [name |-> <<"b">>, map_link |-> "L3", rating |-> "4.1 (3 reviews)"]

InitialFiles ==
    { [kind |-> "absent", toks |-> <<>>],
      [kind |-> "garbage", toks |-> <<>>],
      save_data(<<>>),
      save_data(<< <<"1", <<R1>>>> >>),
      save_data(<< <<"2", <<R3, R1>>>>, <<"1", <<>>>> >>) }

InitStore ==
    /\ data_file \in InitialFiles
    /\ user_saved_lists = load_data(data_file)      \* bot.py:42
    /\ task = EmptyBag

\* The store when the model looks at something else: no file, no handlers.
StoreIdle ==
    /\ data_file = [kind |-> "absent", toks |-> <<>>]
    /\ user_saved_lists = <<>>
    /\ task = EmptyBag

-----------------------------------------------------------------------------
(* The recommendation pipeline: run_food_chain (bot.py) calling find_food    *)
(* (food_tool.py).  Texts that the code searches with `in` are sequences of  *)
(* pieces; a marker the code looks for is one piece.  Ratings are in tenths. *)

\* Python None and numbers, for the truth test of food_tool.py:113
None == [py |-> "None", v |-> 0]
Num(n) == [py |-> "num", v |-> n]
Truthy(x) == x.py = "num" /\ x.v # 0

\* marker in text
Contains(marker, text) == \E i \in 1..Len(text) : text[i] = marker

\* food_tool.py:100  min_rating, in tenths
MinRating == 35
\* food_tool.py:145  candidates[:15]
TopN == 15
\* food_tool.py:159  min(3, len(final_list))
MaxPick == 3
\* food_tool.py:59   seconds in a minute
SecPerMin == 60

\* Number of filler places put in front of the search results, to make the
\* cut at TopN fall inside the list.
FillCount == 13

\* The places a text search can return, in the service's order.
Place(id, name, rating, total) ==
    [place_id |-> id, name |-> name, rating |-> rating,
     user_ratings_total |-> total]

Catalogue ==
    << Place(1, <<"Beef Soup House">>, 45, 10),
       Place(2, <<"Grand Hotel Buffet">>, 34, 10),    \* rating just below 3.5
       Place(3, <<"New Noodle Stand">>, 35, 0),       \* rating 3.5, no reviews
       Place(4, <<"Error", " 404 Cafe">>, 50, 10),
       Place(5, <<"Du Hsiao Yueh">>, 40, 10) >>

FillerId(i) == 100 + i
Fillers == [i \in 1..FillCount |-> Place(FillerId(i), <<"Far Diner">>, 45, 10)]
IsFiller(pid) == pid > 100

\* The subsequence of l at the positions in S.
RECURSIVE Pick(_, _, _)
Pick(l, S, i) ==
    IF i > Len(l) THEN <<>>
    ELSE (IF i \in S THEN <<l[i]>> ELSE <<>>) \o Pick(l, S, i + 1)

ResultLists ==
    { f \o Pick(Catalogue, S, 1) :
        f \in {<<>>, Fillers}, S \in SUBSET (1..Len(Catalogue)) }

GeoResponses ==
    { [kind |-> "exception", status |-> "", lat |-> 0, lng |-> 0],
      [kind |-> "json", status |-> "ZERO_RESULTS", lat |-> 0, lng |-> 0],
      [kind |-> "json", status |-> "OK", lat |-> 23, lng |-> 120],
      [kind |-> "json", status |-> "OK", lat |-> 51, lng |-> 0],
      [kind |-> "json", status |-> "OK", lat |-> 0, lng |-> 32] }

\* A text-search response carries results only with status OK.
SearchResponses ==
    { [kind |-> "exception", status |-> "", results |-> <<>>],
      [kind |-> "json", status |-> "ZERO_RESULTS", results |-> <<>>] }
    \cup { [kind |-> "json", status |-> "OK", results |-> l] : l \in ResultLists }

NoResponse == [kind |-> "none", status |-> "", results |-> <<>>]

\* Distance-matrix elements: a filler is far away; any other destination is
\* unreachable or 119, 120 or 121 seconds away.
Element(st, v) == [status |-> st, text |-> <<ToString(v), " s">>, value |-> v]
ElementChoices(pid) ==
    IF IsFiller(pid) THEN { Element("OK", 6000) }
    ELSE { Element("ZERO_RESULTS", 0), Element("OK", 119), Element("OK", 120),
           Element("OK", 121) }

\* One element per destination, in the order asked.
RECURSIVE ElementSeqs(_)
ElementSeqs(destinations) ==
    IF destinations = <<>> THEN { <<>> }
    ELSE { <<e>> \o rest : e \in ElementChoices(Head(destinations)),
                           rest \in ElementSeqs(Tail(destinations)) }

MatrixResponses(destinations) ==
    { [kind |-> "exception", status |-> "", elements |-> <<>>],
      [kind |-> "json", status |-> "OVER_QUERY_LIMIT", elements |-> <<>>] }
    \cup { [kind |-> "json", status |-> "OK", elements |-> e] :
             e \in ElementSeqs(destinations) }

NoMatrix == [kind |-> "none", status |-> "", elements |-> <<>>]

\* Review texts the place-details call can return.
ReviewTexts == { <<"great soup">>, <<"got an ", "Error", " on the bill">> }

\* Replies of the text-generation service.
LLMResponses == { <<"narration">> }

\* The arguments a recommend request can reach find_food with.
AllKnownIds ==
    [i \in 1..(Len(Catalogue) + FillCount) |->
        IF i <= Len(Catalogue) THEN Catalogue[i].place_id
        ELSE FillerId(i - Len(Catalogue))]

ArgChoices ==
    [ api_key         : BOOLEAN,
      keyword         : { <<"beef soup">> },
      location        : { <<>>, <<"NCKU">> },
      max_travel_time : { 2, 20 },
      min_reviews     : { 0, 10 },
      exclude_ids     : { <<>>, <<1>>, <<4, 1, 5, 3>>, AllKnownIds } ]

-----------------------------------------------------------------------------
(* food_tool.py, function by function *)

\* food_tool.py:22-34  get_coordinates, given the geocoding response
get_coordinates(location_name, resp) ==
    IF location_name = <<>> THEN <<None, None>>
    ELSE IF resp.kind = "json" /\ resp.status = "OK"
         THEN <<Num(resp.lat), Num(resp.lng)>>
         ELSE <<None, None>>

\* Variant: the minutes rounded down.
MinutesFloor(value) == value \div 60

\* food_tool.py:59  math.ceil(value / 60)
Minutes(value) ==
    LET q == value \div SecPerMin
    IN  IF q * SecPerMin = value THEN q ELSE q + 1

\* food_tool.py:52-61  travel_data, filled element by element
RECURSIVE travel_data(_, _, _, _)
travel_data(destinations, elements, i, acc) ==
    IF i > Len(elements) THEN acc
    ELSE travel_data(destinations, elements, i + 1,
            IF elements[i].status = "OK"
            THEN DictSet(acc, destinations[i],
                         [text |-> elements[i].text,
                          minutes |-> Minutes(elements[i].value)])
            ELSE acc)

\* food_tool.py:36-63  calculate_travel_times, given the matrix response
calculate_travel_times(destinations, resp) ==
    IF destinations = <<>> THEN <<>>
    ELSE IF resp.kind # "json" \/ resp.status # "OK" THEN <<>>
    ELSE travel_data(destinations, resp.elements, 1, <<>>)

\* x in list
InList(x, l) == \E i \in 1..Len(l) : l[i] = x

\* Variant: the rating must exceed the minimum.
CandidatesStrictRating(results, min_reviews, exclude_ids) ==
    LET Keep(p) == /\ p.rating > 35
                   /\ p.user_ratings_total >= min_reviews
                   /\ ~InList(p.place_id, exclude_ids)
    IN  SelectSeq(results, Keep)

\* food_tool.py:132-137  the filter on rating, review count and exclude_ids
Candidates(results, min_reviews, exclude_ids) ==
    LET Keep(p) == /\ p.rating >= MinRating
                   /\ p.user_ratings_total >= min_reviews
                   /\ ~InList(p.place_id, exclude_ids)
    IN  SelectSeq(results, Keep)

\* Variant: every candidate is kept.
TopCandidatesUncut(candidates) == candidates

\* food_tool.py:145  candidates[:15]
TopCandidates(candidates) ==
    SubSeq(candidates, 1, IF Len(candidates) < TopN THEN Len(candidates)
                          ELSE TopN)

\* food_tool.py:146
CandidateIds(top) == [i \in 1..Len(top) |-> top[i].place_id]

\* food_tool.py:149-154  the candidates within max_travel_time
FinalList(top, info, max_travel_time) ==
    LET Near(p) == /\ DictHas(info, p.place_id)
                   /\ DictGet(info, p.place_id).minutes <= max_travel_time
    IN  SelectSeq(top, Near)

\* food_tool.py:159  random.sample(final_list, min(3, len(final_list))): any
\* k distinct positions, in any order
Samples(final_list) ==
    LET n == Len(final_list)
        k == IF n < MaxPick THEN n ELSE MaxPick
    IN  { [i \in 1..k |-> final_list[f[i]]] :
            f \in { g \in [1..k -> 1..n] :
                      \A i, j \in 1..k : g[i] = g[j] => i = j } }

\* food_tool.py:171
MapLink(pid) ==
    <<"https://www.google.com/maps/place/?q=place_id:", ToString(pid)>>

\* food_tool.py:163-173  output_data
OutputData(selected, info, review) ==
    [i \in 1..Len(selected) |->
        [name        |-> selected[i].name,
         rating      |-> <<ToString(selected[i].rating), " (",
                           ToString(selected[i].user_ratings_total),
                           " reviews)">>,
         travel_time |-> DictGet(info, selected[i].place_id).text,
         map_link    |-> MapLink(selected[i].place_id),
         details_data |-> review]]

\* json.dumps(output_data): the texts of every restaurant, in order
RECURSIVE JsonDumps(_)
JsonDumps(output_data) ==
    IF output_data = <<>> THEN <<>>
    ELSE LET r == Head(output_data)
         IN  r.name \o r.rating \o r.travel_time \o r.map_link
             \o r.details_data \o JsonDumps(Tail(output_data))

\* The texts find_food returns.
MsgApiKey == <<"Error", ": API Key missing.">>                \* :107
MsgLocation(location) ==                                       \* :114
    <<"Error", ": Cannot find location '">> \o location \o <<"'.">>
MsgNoResults == <<"No results found.">>                        \* :130
\* :141  "附近的「{keyword}」都已經推薦過囉！試試看換個關鍵字或地點吧。"
\* the piece "已經推薦過囉" of that text
MarkerAlreadySeen == "have already been recommended"
MsgAlreadySeen(keyword) ==
    <<"nearby '">> \o keyword \o <<"' are all ", MarkerAlreadySeen,
                                   "! try another keyword or place.">>
MsgNoMatch == <<"No places found matching criteria.">>         \* :142
MsgNoneWithin(max_travel_time) ==                              \* :157
    <<"Found places, but none", " are within ",
      ToString(max_travel_time), " mins.">>
MsgException == <<"Error", ": ", "connection timed out">>      \* :200
Prompt(keyword, max_travel_time, location, output_data) ==     \* :175-196
    <<"The user is looking for '">> \o keyword
    \o <<"' within ", ToString(max_travel_time), " mins from '">>
    \o location \o <<"'. Here are the selected restaurants: ">>
    \o JsonDumps(output_data) \o <<"Instruction for AI ...">>

Returned(text, ids, data) ==
    [tool_output |-> text, ids |-> ids, restaurants |-> data]

NoReturn == Returned(<<>>, <<>>, <<>>)

\* Variant: only the error and the time-budget texts are passed through.
PassedThroughTwo(tool_output) ==
    \/ Contains("Error", tool_output)
    \/ Contains("Found places, but none", tool_output)

\* bot.py:139  the three texts run_food_chain passes through
PassedThrough(tool_output) ==
    \/ Contains("Error", tool_output)
    \/ Contains("Found places, but none", tool_output)
    \/ Contains(MarkerAlreadySeen, tool_output)

-----------------------------------------------------------------------------
(* One recommend request, step by step: every request to an outside service  *)
(* is a step whose response is chosen among the responses above.             *)

\* food_tool.py:106-114  the key check and the geocoding lookup
Geocode ==
    /\ pc = "geocode"
    /\ IF ~args.api_key
       THEN /\ ret' = Returned(MsgApiKey, <<>>, <<>>)
            /\ pc' = "chain"
            /\ UNCHANGED origin
       ELSE \E resp \in GeoResponses :
               /\ origin' = get_coordinates(args.location, resp)
               /\ IF ~Truthy(origin'[1])
                  THEN /\ ret' = Returned(MsgLocation(args.location), <<>>, <<>>)
                       /\ pc' = "chain"
                  ELSE /\ pc' = "search"
                       /\ UNCHANGED ret
    /\ UNCHANGED <<args, res, matrix, travel_info, chain_ret>>

\* food_tool.py:116-142  the text search and the filter
TextSearch ==
    /\ pc = "search"
    /\ \E resp \in SearchResponses :
          /\ res' = resp
          /\ IF resp.kind = "exception"
             THEN /\ ret' = Returned(MsgException, <<>>, <<>>)
                  /\ pc' = "chain"
             ELSE IF resp.status # "OK"
             THEN /\ ret' = Returned(MsgNoResults, <<>>, <<>>)
                  /\ pc' = "chain"
             ELSE IF Candidates(resp.results, args.min_reviews,
                                args.exclude_ids) = <<>>
             THEN /\ ret' = IF resp.results # <<>> /\ Len(args.exclude_ids) > 0
                            THEN Returned(MsgAlreadySeen(args.keyword),
                                          <<>>, <<>>)
                            ELSE Returned(MsgNoMatch, <<>>, <<>>)
                  /\ pc' = "chain"
             ELSE /\ pc' = "matrix"
                  /\ UNCHANGED ret
    /\ UNCHANGED <<args, origin, matrix, travel_info, chain_ret>>

\* food_tool.py:145  top_candidates of the call in progress
top_candidates ==
    TopCandidates(Candidates(res.results, args.min_reviews, args.exclude_ids))

\* food_tool.py:149-154  final_list of the call in progress
final_list == FinalList(top_candidates, travel_info, args.max_travel_time)

\* food_tool.py:145-157  the travel times and the time budget
TravelTimes ==
    /\ pc = "matrix"
    /\ \E resp \in MatrixResponses(CandidateIds(top_candidates)) :
          /\ matrix' = resp
          /\ travel_info' =
                calculate_travel_times(CandidateIds(top_candidates), resp)
          /\ IF FinalList(top_candidates, travel_info',
                          args.max_travel_time) = <<>>
             THEN /\ ret' = Returned(MsgNoneWithin(args.max_travel_time),
                                     <<>>, <<>>)
                  /\ pc' = "chain"
             ELSE /\ pc' = "sample"
                  /\ UNCHANGED ret
    /\ UNCHANGED <<args, origin, res, chain_ret>>

\* food_tool.py:159-197  the sample, the details and the prompt
Sample ==
    /\ pc = "sample"
    /\ \E selected \in Samples(final_list), review \in ReviewTexts :
          LET output_data == OutputData(selected, travel_info, review)
          IN  ret' = Returned(Prompt(args.keyword, args.max_travel_time,
                                     args.location, output_data),
                              CandidateIds(selected), output_data)
    /\ pc' = "chain"
    /\ UNCHANGED <<args, origin, res, matrix, travel_info, chain_ret>>

\* bot.py:139-153  what run_food_chain returns for find_food's return r
ChainReturn(r, llm_response) ==
    IF PassedThrough(r.tool_output)
    THEN Returned(r.tool_output, <<>>, <<>>)
    ELSE Returned(llm_response, r.ids, r.restaurants)

\* bot.py:139-153  run_food_chain after find_food has returned
RunFoodChain ==
    /\ pc = "chain"
    /\ \E llm_response \in LLMResponses :
          chain_ret' = ChainReturn(ret, llm_response)
    /\ pc' = "done"
    /\ UNCHANGED <<args, origin, res, matrix, travel_info, ret>>

InitFood ==
    /\ args \in ArgChoices
    /\ pc = "geocode"
    /\ origin = <<None, None>>
    /\ res = NoResponse
    /\ matrix = NoMatrix
    /\ travel_info = <<>>
    /\ ret = NoReturn
    /\ chain_ret = NoReturn

\* No recommend request: the model looks at something else.
FoodIdle ==
    /\ args = [api_key |-> TRUE, keyword |-> <<>>, location |-> <<>>,
               max_travel_time |-> 0, min_reviews |-> 0, exclude_ids |-> <<>>]
    /\ pc = "idle"
    /\ origin = <<None, None>>
    /\ res = NoResponse
    /\ matrix = NoMatrix
    /\ travel_info = <<>>
    /\ ret = NoReturn
    /\ chain_ret = NoReturn

-----------------------------------------------------------------------------
(* bot.py:171-203  the /eat handlers and the conversation contexts          *)
(*                                                                         *)
(* A context is a Python dict.  user_contexts and the locals of a handler  *)
(* hold references to dicts, because analyze_request can hand back the     *)
(* very dict that is stored (bot.py:127) and eat then writes into it       *)
(* (bot.py:188).  heap maps a reference to the dict it denotes.            *)

\* The number of /eat handlers alive at once.
MaxEatTasks == 2

\* bot.py:133  params.get("time_limit", 20)
DefaultTimeLimit == 20

NoRef == 0
\* Every handler holds one dict at a time, the store one for each user, and
\* a handler that builds its analysis still holds the context it has read.
ObjIds == 1..(Cardinality(Users) + MaxEatTasks + 1)

\* A context dict; a dict without the key seen_ids reads as [] (bot.py:183).
Context(location, keyword, seen_ids) ==
    [location |-> location, keyword |-> keyword,
     time_limit |-> DefaultTimeLimit, seen_ids |-> seen_ids]

\* The slot of a dict nobody refers to.
FreeObj == [location |-> <<>>, keyword |-> <<>>, time_limit |-> 0,
            seen_ids |-> <<>>]

\* bot.py:128  {"location": "台南", "keyword": "美食"}
DefaultAnalysis == Context(<<"Tainan">>, <<"food">>, <<>>)

\* What the text-generation service can answer to analyze_request: text that
\* is not JSON, JSON that is not an object, or an object with the parameters.
AnalysisReplies ==
    { [kind |-> "not json", dict |-> FreeObj],
      [kind |-> "list", dict |-> FreeObj] }
    \cup { [kind |-> "dict", dict |-> Context(p[1], p[2], <<>>)] :
             p \in { <<<<"NCKU">>, <<"beef soup">>>>,
                     <<<<"NCKU">>, <<"hot pot">>>>,
                     <<<<"Station">>, <<"hot pot">>>> } }

\* The text search of a conversation: it fails, or it finds two places for
\* beef soup and one of them for any other keyword.
EatSearchResponses(keyword) ==
    { [kind |-> "exception", status |-> "", results |-> <<>>],
      [kind |-> "json", status |-> "OK",
       results |-> IF keyword = <<"beef soup">>
                   THEN Pick(Catalogue, {1, 5}, 1)
                   ELSE Pick(Catalogue, {5}, 1)] }

\* food_tool.py:145-197  find_food from the travel times on
FindFoodAfterMatrix(a, top, resp) ==
    LET info == calculate_travel_times(CandidateIds(top), resp)
        final == FinalList(top, info, a.max_travel_time)
    IN  IF final = <<>>
        THEN { Returned(MsgNoneWithin(a.max_travel_time), <<>>, <<>>) }
        ELSE { Returned(Prompt(a.keyword, a.max_travel_time, a.location,
                               OutputData(selected, info, review)),
                        CandidateIds(selected),
                        OutputData(selected, info, review)) :
                 selected \in Samples(final), review \in ReviewTexts }

\* food_tool.py:128-197  find_food from the text-search response on
FindFoodAfterSearch(a, resp) ==
    IF resp.kind = "exception" THEN { Returned(MsgException, <<>>, <<>>) }
    ELSE IF resp.status # "OK" THEN { Returned(MsgNoResults, <<>>, <<>>) }
    ELSE LET candidates ==
                 Candidates(resp.results, a.min_reviews, a.exclude_ids)
             top == TopCandidates(candidates)
         IN  IF candidates = <<>>
             THEN { IF resp.results # <<>> /\ Len(a.exclude_ids) > 0
                    THEN Returned(MsgAlreadySeen(a.keyword), <<>>, <<>>)
                    ELSE Returned(MsgNoMatch, <<>>, <<>>) }
             ELSE UNION { FindFoodAfterMatrix(a, top, m) :
                            m \in MatrixResponses(CandidateIds(top)) }

\* food_tool.py:95-200  find_food: every return the services' responses allow
find_food(a) ==
    LET Found(g) == Truthy(get_coordinates(a.location, g)[1])
    IN  IF ~a.api_key THEN { Returned(MsgApiKey, <<>>, <<>>) }
        ELSE (IF \E g \in GeoResponses : ~Found(g)
              THEN { Returned(MsgLocation(a.location), <<>>, <<>>) }
              ELSE {})
             \cup
             (IF \E g \in GeoResponses : Found(g)
              THEN UNION { FindFoodAfterSearch(a, s) :
                             s \in EatSearchResponses(a.keyword) }
              ELSE {})

\* bot.py:130-153  run_food_chain: every return it can give
run_food_chain(params, exclude_ids) ==
    { ChainReturn(r, llm_response) :
        r \in find_food([api_key |-> TRUE, keyword |-> params.keyword,
                         location |-> params.location,
                         max_travel_time |-> params.time_limit,
                         min_reviews |-> 0, exclude_ids |-> exclude_ids]),
        llm_response \in LLMResponses }

\* bot.py:185  new_ids, for every return of run_food_chain
NewIdLists(params, exclude_ids) ==
    { c.ids : c \in run_food_chain(params, exclude_ids) }

\* A handler: where it waits, and its locals that are still read.
EatTask(at, u, last_context, analysis, current_exclude_ids, new_ids) ==
    [pc |-> at, user |-> u, last_context |-> last_context,
     analysis |-> analysis, current_exclude_ids |-> current_exclude_ids,
     new_ids |-> new_ids]

EatAlive == BagToSet(eat_task)

EatAdvance(t, t2) == (eat_task (-) SetToBag({t})) (+) SetToBag({t2})

\* Is the dict o referred to by the store or by a handler?
Referenced(o, contexts, tasks) ==
    \/ \E u \in Users : contexts[u] = o
    \/ \E t \in BagToSet(tasks) : t.last_context = o \/ t.analysis = o

\* The reference of a new dict.
NewObj == CHOOSE o \in ObjIds : ~Referenced(o, user_contexts, eat_task)

\* References are names: after every step the dicts are renamed, the dict
\* stored for user u to u and the others after them in their old order, and
\* a dict nobody refers to is dropped.
Slot(o, contexts, tasks) ==
    IF o = NoRef THEN NoRef
    ELSE IF \E u \in Users : contexts[u] = o
         THEN CHOOSE u \in Users : contexts[u] = o
         ELSE Cardinality(Users)
              + Cardinality({ p \in 1..o :
                                /\ Referenced(p, contexts, tasks)
                                /\ \A u \in Users : contexts[u] # p })

Renamed(h, contexts, tasks) ==
    LET To(o) == Slot(o, contexts, tasks)
        Moved(t) == [t EXCEPT !.last_context = To(@), !.analysis = To(@)]
    IN  [contexts |-> [u \in Users |-> To(contexts[u])],
         heap |-> [o \in ObjIds |->
                     IF \E p \in ObjIds :
                           Referenced(p, contexts, tasks) /\ To(p) = o
                     THEN h[CHOOSE p \in ObjIds :
                              Referenced(p, contexts, tasks) /\ To(p) = o]
                     ELSE FreeObj],
         tasks |-> BagOfAll(Moved, tasks)]

\* The state after a step that leaves the dicts h, the store contexts and the
\* handlers tasks.
Becomes(h, contexts, tasks) ==
    LET r == Renamed(h, contexts, tasks)
    IN  /\ user_contexts' = r.contexts
        /\ heap' = r.heap
        /\ eat_task' = r.tasks

\* bot.py:172-177  /eat is invoked: the handler reads the user's context and
\* waits for analyze_request
EatInvoke ==
    /\ BagCardinality(eat_task) < MaxEatTasks
    /\ \E u \in Users :
          eat_task' = eat_task (+) SetToBag({
              EatTask("analyze_request", u, user_contexts[u], NoRef,
                      <<>>, <<>>) })
    /\ UNCHANGED <<user_contexts, heap>>

\* bot.py:122-128, 177-185  analyze_request returns; the handler works out
\* current_exclude_ids and waits for run_food_chain
eat_analyzed(t) ==
    /\ t.pc = "analyze_request"
    /\ \E reply \in AnalysisReplies :
          IF reply.kind = "list"
          THEN \* .get of a list raises: the handler ends
               Becomes(heap, user_contexts, eat_task (-) SetToBag({t}))
          ELSE LET same == reply.kind = "not json" /\ t.last_context # NoRef
                   analysis == IF same THEN t.last_context ELSE NewObj
                   h == IF same THEN heap
                        ELSE [heap EXCEPT ![analysis] =
                                 IF reply.kind = "dict" THEN reply.dict
                                 ELSE DefaultAnalysis]
                   current_exclude_ids ==
                       IF /\ t.last_context # NoRef
                          /\ h[analysis].location = h[t.last_context].location
                          /\ h[analysis].keyword = h[t.last_context].keyword
                       THEN h[t.last_context].seen_ids
                       ELSE <<>>
               IN  Becomes(h, user_contexts,
                       EatAdvance(t,
                          EatTask("run_food_chain", t.user, NoRef, analysis,
                                  current_exclude_ids, <<>>)))

\* bot.py:185-203  run_food_chain returns; the handler updates the context
\* and waits for the reply to be sent
eat_finished(t) ==
    /\ t.pc = "run_food_chain"
    /\ \E new_ids \in NewIdLists(heap[t.analysis], t.current_exclude_ids) :
          LET tasks == EatAdvance(t,
                  EatTask("send", t.user, NoRef, NoRef, <<>>, new_ids))
          IN  IF new_ids # <<>>
              THEN Becomes([heap EXCEPT ![t.analysis].seen_ids =
                               t.current_exclude_ids \o new_ids],
                           [user_contexts EXCEPT ![t.user] = t.analysis],
                           tasks)
              ELSE Becomes(heap, user_contexts, tasks)

\* bot.py:195-203  the reply is sent and the handler ends
eat_sent(t) ==
    /\ t.pc = "send"
    /\ eat_task' = eat_task (-) SetToBag({t})
    /\ UNCHANGED <<user_contexts, heap>>

\* bot.py:37  user_contexts = {}
InitEat ==
    /\ user_contexts = [u \in Users |-> NoRef]
    /\ heap = [o \in ObjIds |-> FreeObj]
    /\ eat_task = EmptyBag

-----------------------------------------------------------------------------
(* Specifications *)

\* The saved-list store under overlapping save and /delete handlers.
InitSaved == InitStore /\ FoodIdle /\ InitEat

NextSaved ==
    \/ PressSave /\ UNCHANGED <<foodVars, eatVars>>
    \/ InvokeDelete /\ UNCHANGED <<foodVars, eatVars>>
    \/ \E t \in Alive : callback(t) /\ UNCHANGED <<foodVars, eatVars>>
    \/ \E t \in Alive : delete_saved(t) /\ UNCHANGED <<foodVars, eatVars>>
    \/ \E t \in Alive : send_message(t) /\ UNCHANGED <<foodVars, eatVars>>

SpecSaved == InitSaved /\ [][NextSaved]_vars

\* One recommend request through run_food_chain and find_food.
InitPipeline == InitFood /\ StoreIdle /\ InitEat

NextPipeline ==
    \/ Geocode /\ UNCHANGED <<savedVars, eatVars>>
    \/ TextSearch /\ UNCHANGED <<savedVars, eatVars>>
    \/ TravelTimes /\ UNCHANGED <<savedVars, eatVars>>
    \/ Sample /\ UNCHANGED <<savedVars, eatVars>>
    \/ RunFoodChain /\ UNCHANGED <<savedVars, eatVars>>

SpecPipeline == InitPipeline /\ [][NextPipeline]_vars

\* /eat handlers of two users, overlapping at their awaits.
InitEatSpec == InitEat /\ StoreIdle /\ FoodIdle

NextEat ==
    \/ EatInvoke /\ UNCHANGED <<savedVars, foodVars>>
    \/ \E t \in EatAlive : eat_analyzed(t) /\ UNCHANGED <<savedVars, foodVars>>
    \/ \E t \in EatAlive : eat_finished(t) /\ UNCHANGED <<savedVars, foodVars>>
    \/ \E t \in EatAlive : eat_sent(t) /\ UNCHANGED <<savedVars, foodVars>>

SpecEat == InitEatSpec /\ [][NextEat]_vars

-----------------------------------------------------------------------------
(* Properties of the saved-list store *)

Range(l) == { l[i] : i \in 1..Len(l) }

NamesDistinct(l) ==
    \A i, j \in 1..Len(l) : l[i].name = l[j].name => i = j

\* t's body runs in this step, and t2 is the message it then sends.
Runs(t, t2) ==
    /\ t.pc = "pending"
    /\ t2.pc = "sending"
    /\ t2.op = t.op
    /\ t2.user = t.user
    /\ BagIn(t, task)
    /\ BagIn(t2, task')
    /\ task' = Advance(t, t2)

SendingTasks == { t \in Alive : t.pc = "sending" }

\* C1: no user's saved list, in memory or in the persisted file, ever holds two
\* entries with the same name, whatever adds and deletes ran, in whatever order.
C1_NamesUnique ==
    /\ \A i \in 1..Len(user_saved_lists) :
          NamesDistinct(user_saved_lists[i][2])
    /\ LET stored == load_data(data_file)
       IN  \A i \in 1..Len(stored) : NamesDistinct(stored[i][2])

\* An add of a second place with a saved name has been turned down while the
\* user's list holds two entries.
C1_Witness ==
    \E t \in SendingTasks :
        /\ t.reply = "already_present"
        /\ Len(DictGet(user_saved_lists, Str(t.user))) = 2

\* C2: an add whose name is already in the user's list reports already_present
\* and changes neither the mapping (any user's list) nor the file; an add that
\* reports added leaves the name in the list, so a second add of it changes
\* nothing.
C2_AddIdempotent ==
    [][\A t \in Alive : \A t2 \in BagToSet(task') :
          (Runs(t, t2) /\ t.op = "add") =>
             LET saved == DictGet(user_saved_lists, Str(t.user))
                 after == DictGet(user_saved_lists', Str(t.user))
                 has   == \E i \in 1..Len(saved) :
                             saved[i].name = t.restaurant.name
             IN  /\ has => /\ t2.reply = "already_present"
                           /\ user_saved_lists' = user_saved_lists
                           /\ data_file' = data_file
                 /\ ~has => /\ t2.reply = "added"
                            /\ after = Append(saved, SavedEntry(t.restaurant))
                 /\ Cardinality({ i \in 1..Len(after) :
                                    after[i].name = t.restaurant.name }) = 1
      ]_vars

\* An add was turned down as already present.
C2_Witness ==
    \E t \in SendingTasks :
        /\ t.reply = "already_present"
        /\ \E i \in 1..Len(DictGet(user_saved_lists, Str(t.user))) :
              DictGet(user_saved_lists, Str(t.user))[i].name = t.reply_name

\* C3: a delete removes exactly the earliest entry of the user whose name
\* contains the argument and keeps the user's other entries in order and every
\* other user's list as it was, rewriting the file; with no such entry (or no
\* entries) it reports that nothing was removed and changes neither the mapping
\* nor the file.
C3_RemoveFirstMatch ==
    [][\A t \in Alive : \A t2 \in BagToSet(task') :
          (Runs(t, t2) /\ t.op = "delete") =>
             LET user_id == Str(t.user)
                 saved   == DictGet(user_saved_lists, user_id)
                 after   == DictGet(user_saved_lists', user_id)
                 hits    == { i \in 1..Len(saved) :
                                IsSubstring(t.shop_name, saved[i].name) }
             IN  IF hits # {}
                 THEN LET k == CHOOSE i \in hits : \A j \in hits : i <= j
                      IN  /\ t2.reply = "removed"
                          /\ t2.reply_name = saved[k].name
                          /\ Len(after) = Len(saved) - 1
                          /\ \A i \in 1..Len(after) :
                                after[i] = IF i < k THEN saved[i]
                                                    ELSE saved[i + 1]
                          /\ Len(user_saved_lists') = Len(user_saved_lists)
                          /\ \A i \in 1..Len(user_saved_lists) :
                                /\ user_saved_lists'[i][1] =
                                      user_saved_lists[i][1]
                                /\ user_saved_lists[i][1] # user_id =>
                                      user_saved_lists'[i] = user_saved_lists[i]
                          /\ load_data(data_file') = user_saved_lists'
                 ELSE /\ t2.reply \in {"not_found", "empty_list"}
                      /\ t2.reply = "empty_list" <=> saved = <<>>
                      /\ user_saved_lists' = user_saved_lists
                      /\ data_file' = data_file
      ]_vars

\* A delete removed "ab" and left the later entry "b" of the same list, the
\* case of the example remove("牛肉") on ["牛肉湯老店", "度小月"].
C3_Witness ==
    \E t \in SendingTasks :
        /\ t.op = "delete"
        /\ t.reply = "removed"
        /\ t.reply_name = <<"a", "b">>
        /\ DictGet(user_saved_lists, Str(t.user)) = <<R3>>
        /\ BagCardinality(task) = 1

\* C4: reloading the persisted file gives the in-memory mapping: the same
\* keys, the same entries, in the same order.
C4_FileMatchesMemory == load_data(data_file) = user_saved_lists

\* A delete has rewritten a file that holds lists of both users.
C4_Witness ==
    /\ data_file.kind = "json"
    /\ Len(user_saved_lists) = 2
    /\ \A i \in 1..2 : user_saved_lists[i][2] # <<>>
    /\ \E t \in SendingTasks : t.reply = "removed"

\* The lists of user u, in memory and as stored in the file.
Memory(u) == DictGet(user_saved_lists, Str(u))
Stored(u) == DictGet(load_data(data_file), Str(u))

\* C5 (as amended): no update is lost.  After every step the file holds the
\* mapping that is in memory.  An entry leaves a user's list only in the step
\* of a delete of that user that reports it removed; an entry enters only in
\* the step of an add of that user that reports it added; right after an add
\* that reports added, its entry and all earlier ones are there, and right
\* after a delete that reports removed, exactly that entry is gone; whatever
\* other handlers are pending or sending.
C5_NoLostUpdate ==
    [][/\ (data_file' # data_file \/ user_saved_lists' # user_saved_lists) =>
             load_data(data_file') = user_saved_lists'
       /\ \A u \in Users :
             LET m0 == Range(DictGet(user_saved_lists, Str(u)))
                 m1 == Range(DictGet(user_saved_lists', Str(u)))
             IN  /\ \A e \in m0 \ m1 :
                       \E t \in Alive : \E t2 \in BagToSet(task') :
                          /\ Runs(t, t2)
                          /\ t.op = "delete" /\ t.user = u
                          /\ t2.reply = "removed"
                          /\ t2.reply_name = e.name
                 /\ \A e \in m1 \ m0 :
                       \E t \in Alive : \E t2 \in BagToSet(task') :
                          /\ Runs(t, t2)
                          /\ t.op = "add" /\ t.user = u
                          /\ t2.reply = "added"
                          /\ e = SavedEntry(t.restaurant)
       /\ \A t \in Alive : \A t2 \in BagToSet(task') :
             Runs(t, t2) =>
                LET m0 == Range(DictGet(user_saved_lists, Str(t.user)))
                    m1 == Range(DictGet(user_saved_lists', Str(t.user)))
                IN  /\ t2.reply = "added" =>
                          /\ SavedEntry(t.restaurant) \in m1
                          /\ m0 \subseteq m1
                    /\ t2.reply = "removed" =>
                          \E e \in m0 :
                             /\ e.name = t2.reply_name
                             /\ m1 = m0 \ {e}
      ]_vars

\* Two handlers of one user are alive at once, both have reported added, for
\* different names.
RacedAdds(t1, t2) ==
    /\ t1.user = t2.user
    /\ t1.reply = "added" /\ t2.reply = "added"
    /\ t1.reply_name # t2.reply_name

HasName(l, n) == \E i \in 1..Len(l) : l[i].name = n

\* Two overlapping adds of one user have both run and both entries are in
\* memory and in the file.
C5_Witness ==
    \E t1, t2 \in SendingTasks :
        /\ RacedAdds(t1, t2)
        /\ HasName(Memory(t1.user), t1.reply_name)
        /\ HasName(Memory(t1.user), t2.reply_name)
        /\ HasName(Stored(t1.user), t1.reply_name)
        /\ HasName(Stored(t1.user), t2.reply_name)

\* C5 (as claimed): two overlapping mutations of one user's list lose an
\* update, the last full rewrite winning: after two overlapping adds that both
\* reported added, the list in memory or in the file lacks one of the entries.
C5_RaceLosesUpdate ==
    \A t1, t2 \in SendingTasks :
        RacedAdds(t1, t2) =>
           \/ ~HasName(Memory(t1.user), t1.reply_name)
           \/ ~HasName(Memory(t1.user), t2.reply_name)
           \/ ~HasName(Stored(t1.user), t1.reply_name)
           \/ ~HasName(Stored(t1.user), t2.reply_name)


-----------------------------------------------------------------------------
(* Properties of the recommendation pipeline *)

SearchOK == res.kind = "json" /\ res.status = "OK"
MatrixOK == matrix.kind = "json" /\ matrix.status = "OK"
FindFoodReturned == pc \in {"chain", "done"}

\* The positions of the raw results that pass the filter, the rank of such a
\* position among them, and the positions whose travel time is asked for:
\* the first 15 that pass.
Passing ==
    { i \in 1..Len(res.results) :
        /\ res.results[i].rating >= 35
        /\ res.results[i].user_ratings_total >= args.min_reviews
        /\ \A j \in 1..Len(args.exclude_ids) :
              args.exclude_ids[j] # res.results[i].place_id }
Rank(i) == Cardinality({ j \in Passing : j <= i })
Asked ==
    LET passing == Passing
    IN  { i \in passing : Cardinality({ j \in passing : j <= i }) <= 15 }

\* E: the ids of the asked places whose element is OK and within the limit.
Eligible ==
    IF SearchOK /\ MatrixOK
    THEN { res.results[i].place_id : i \in
             { k \in Asked :
                 /\ Rank(k) <= Len(matrix.elements)
                 /\ matrix.elements[Rank(k)].status = "OK"
                 /\ matrix.elements[Rank(k)].value
                       <= 60 * args.max_travel_time } }
    ELSE {}

ReturnedIds == { ret.ids[i] : i \in 1..Len(ret.ids) }

\* C6: what find_food returns is a duplicate-free subset of E of size
\* min(3, |E|), ids and restaurants alike: never a place rated below 3.5,
\* never an excluded one, never one beyond the time limit, never more than 3.
C6_SelectionCorrect ==
    FindFoodReturned =>
       /\ \A i, j \in 1..Len(ret.ids) : ret.ids[i] = ret.ids[j] => i = j
       /\ ReturnedIds \subseteq Eligible
       /\ Len(ret.ids) = IF Cardinality(Eligible) < 3
                         THEN Cardinality(Eligible) ELSE 3
       /\ Len(ret.restaurants) = Len(ret.ids)
       /\ \A i \in 1..Len(ret.ids) :
             /\ ret.restaurants[i].map_link = MapLink(ret.ids[i])
             /\ \E k \in 1..Len(res.results) :
                   /\ res.results[k].place_id = ret.ids[i]
                   /\ res.results[k].name = ret.restaurants[i].name
                   /\ res.results[k].rating >= 35
                   /\ ~InList(ret.ids[i], args.exclude_ids)

\* Four places are eligible, three are returned, and the raw results held a
\* place rated 3.4 with ten reviews.
C6_Witness ==
    /\ FindFoodReturned
    /\ Cardinality(Eligible) = 4
    /\ Len(ret.ids) = 3
    /\ \E k \in 1..Len(res.results) : res.results[k].rating = 34

\* C7: when the search returned places and every one of them is in
\* exclude_ids, find_food returns the already-seen text with no ids and no
\* restaurants, not the no-match text, and run_food_chain hands exactly that on.
C7_AllExcludedMessage ==
    (/\ FindFoodReturned
     /\ SearchOK
     /\ res.results # <<>>
     /\ \A k \in 1..Len(res.results) :
           InList(res.results[k].place_id, args.exclude_ids)) =>
       /\ ret = Returned(MsgAlreadySeen(args.keyword), <<>>, <<>>)
       /\ ret.tool_output # MsgNoMatch
       /\ pc = "done" => chain_ret = ret

\* A request whose search results were all excluded has been answered.
C7_Witness ==
    /\ pc = "done"
    /\ SearchOK
    /\ Len(res.results) >= 2
    /\ \A k \in 1..Len(res.results) :
          InList(res.results[k].place_id, args.exclude_ids)
    /\ chain_ret.tool_output = MsgAlreadySeen(args.keyword)

\* The destination of the r-th element of the matrix response.
Destination(r) ==
    LET asked == Asked
    IN  res.results[CHOOSE i \in asked :
                       Cardinality({ j \in asked : j <= i }) = r].place_id

\* C8: an OK element of v seconds gives the least number of minutes that is
\* not below v/60 (119 -> 2, 120 -> 2, 121 -> 3); an element that is not OK
\* gives no entry, and its place is not returned.
C8_MinutesCeiling ==
    (MatrixOK /\ SearchOK) =>
       \A r \in 1..Len(matrix.elements) :
          LET e   == matrix.elements[r]
              pid == Destination(r)
          IN  IF e.status = "OK"
              THEN /\ DictHas(travel_info, pid)
                   /\ LET m == DictGet(travel_info, pid).minutes
                      IN  /\ 60 * m >= e.value
                          /\ 60 * (m - 1) < e.value
                          /\ e.value = 119 => m = 2
                          /\ e.value = 120 => m = 2
                          /\ e.value = 121 => m = 3
              ELSE /\ ~DictHas(travel_info, pid)
                   /\ pid \notin ReturnedIds

\* A response with an element that is not OK and elements of 119, 120 and 121
\* seconds has been processed and places were returned.
C8_Witness ==
    /\ MatrixOK
    /\ FindFoodReturned
    /\ ret.ids # <<>>
    /\ \E r \in 1..Len(matrix.elements) : matrix.elements[r].status # "OK"
    /\ \A v \in {119, 120, 121} :
          \E r \in 1..Len(matrix.elements) :
             matrix.elements[r].status = "OK" /\ matrix.elements[r].value = v

\* C9 (as claimed): with a key set, the location-not-found text is returned,
\* with no search issued, exactly when the resolver reported not-found; for
\* every coordinate pair it returned, zero latitude or longitude included,
\* the search is issued.
C9_LocationFailFast ==
    (args.api_key /\ pc # "geocode") =>
       /\ origin = <<None, None>> =>
             /\ ret = Returned(MsgLocation(args.location), <<>>, <<>>)
             /\ res = NoResponse
       /\ origin # <<None, None>> =>
             /\ ret.tool_output # MsgLocation(args.location)
             /\ pc = "search" \/ res # NoResponse

\* Every raw result is in exclude_ids.
AllExcluded ==
    \A k \in 1..Len(res.results) :
       InList(res.results[k].place_id, args.exclude_ids)

\* C11: when the filter leaves no candidate, find_food returns the
\* already-seen text only if the search returned places and every one of
\* them is in exclude_ids; in every other such case (no raw result, or
\* results that the rating or the review count removed while exclude_ids is
\* non-empty and does not cover them) it returns the no-match text.
C11_AlreadySeenOnlyIfAllExcluded ==
    (FindFoodReturned /\ SearchOK /\ Passing = {}) =>
       ret = IF res.results # <<>> /\ AllExcluded
             THEN Returned(MsgAlreadySeen(args.keyword), <<>>, <<>>)
             ELSE Returned(MsgNoMatch, <<>>, <<>>)

\* The three no-match conditions of a request, read off the responses.
EmptyCandidates ==
    SearchOK /\ Passing = {} /\ ~(res.results # <<>> /\ AllExcluded)
EverythingExcluded == SearchOK /\ res.results # <<>> /\ AllExcluded
NoneWithinBudget == SearchOK /\ Passing # {} /\ Eligible = {}

\* C12: the no-match text, the already-seen text and the time-budget text
\* are pairwise distinct, and when a request ends in one of the three
\* conditions run_food_chain returns that condition's text itself, with no
\* ids and no restaurants, and not a reply of the narration call.
C12_NoMatchMessages ==
    /\ MsgNoMatch # MsgAlreadySeen(args.keyword)
    /\ MsgNoMatch # MsgNoneWithin(args.max_travel_time)
    /\ MsgAlreadySeen(args.keyword) # MsgNoneWithin(args.max_travel_time)
    /\ pc = "done" =>
          /\ chain_ret.tool_output \in LLMResponses =>
                ~(EmptyCandidates \/ EverythingExcluded \/ NoneWithinBudget)
          /\ EmptyCandidates => chain_ret = Returned(MsgNoMatch, <<>>, <<>>)
          /\ EverythingExcluded =>
                chain_ret = Returned(MsgAlreadySeen(args.keyword), <<>>, <<>>)
          /\ NoneWithinBudget =>
                chain_ret = Returned(MsgNoneWithin(args.max_travel_time),
                                     <<>>, <<>>)

-----------------------------------------------------------------------------
(* Properties of the conversation contexts *)

\* user_contexts.get(u), as a value; FreeObj when the user has no context
ContextOf(u) ==
    IF user_contexts[u] = NoRef THEN FreeObj ELSE heap[user_contexts[u]]

\* In this step a recommend run ends: its handler starts to send the reply
\* and is the handler t2 from now on.
RunEnds(t2) ==
    /\ t2.pc = "send"
    /\ CopiesIn(t2, eat_task') = CopiesIn(t2, eat_task) + 1

\* The handlers of user u that wait for run_food_chain.
Running(u) == { t \in EatAlive : t.pc = "run_food_chain" /\ t.user = u }

\* C10: a user's stored context changes only in the step that ends a
\* recommend run of that user with at least one new id.  It then holds the
\* analyzed parameters, with seen_ids the stored context's seen_ids followed
\* by the new ids when the analyzed location and keyword equal the stored
\* context's, and the new ids alone when one of them differs or the user had
\* no context.  A run that ends with no ids changes no context, and no run
\* changes another user's context.
C10_ContextUpdate ==
    [][ /\ (\A t2 \in BagToSet(eat_task') : ~RunEnds(t2))
           => \A u \in Users : ContextOf(u)' = ContextOf(u)
        /\ \A t2 \in BagToSet(eat_task') : RunEnds(t2) =>
              /\ \A v \in Users \ {t2.user} : ContextOf(v)' = ContextOf(v)
              /\ t2.new_ids = <<>> => ContextOf(t2.user)' = ContextOf(t2.user)
              /\ t2.new_ids # <<>> =>
                    \E t \in Running(t2.user) :
                       LET analysis == heap[t.analysis]
                           previous == ContextOf(t.user)
                           same == /\ user_contexts[t.user] # NoRef
                                   /\ analysis.location = previous.location
                                   /\ analysis.keyword = previous.keyword
                       IN  ContextOf(t.user)' =
                              [analysis EXCEPT !.seen_ids =
                                  IF same THEN previous.seen_ids \o t2.new_ids
                                  ELSE t2.new_ids]
      ]_vars

\* What the update does: the ids are appended to current_exclude_ids, which
\* the handler took from the context it had read when it was invoked.
ContextUpdateFromRead ==
    [][ /\ (\A t2 \in BagToSet(eat_task') : ~RunEnds(t2))
           => \A u \in Users : ContextOf(u)' = ContextOf(u)
        /\ \A t2 \in BagToSet(eat_task') : RunEnds(t2) =>
              /\ \A v \in Users \ {t2.user} : ContextOf(v)' = ContextOf(v)
              /\ t2.new_ids = <<>> => ContextOf(t2.user)' = ContextOf(t2.user)
              /\ t2.new_ids # <<>> =>
                    \E t \in Running(t2.user) :
                       ContextOf(t.user)' =
                          [heap[t.analysis] EXCEPT !.seen_ids =
                              t.current_exclude_ids \o t2.new_ids]
      ]_vars

\* The run that ends in this step as t2 can be the run of the handler t.
EndsAs(t, t2) ==
    /\ RunEnds(t2)
    /\ t \in Running(t2.user)
    /\ IF t2.new_ids = <<>>
       THEN ContextOf(t.user)' = ContextOf(t.user)
       ELSE ContextOf(t.user)' =
               [heap[t.analysis] EXCEPT !.seen_ids =
                   t.current_exclude_ids \o t2.new_ids]

\* The request of the handler t continues the chain of the stored context:
\* its analyzed location and keyword are the stored context's.
InChain(t) ==
    /\ user_contexts[t.user] # NoRef
    /\ heap[t.analysis].location = ContextOf(t.user).location
    /\ heap[t.analysis].keyword = ContextOf(t.user).keyword

\* C13: a request that continues the chain of the stored context, whether or
\* not its handler has overlapped with another handler of the user, never
\* recommends a place_id that an earlier request of the chain has recommended:
\* the ids recommended so far in the chain are the stored seen_ids, and none
\* of them is among the ids the request returns.
C13_NoRepeatInChain ==
    [][ \A t \in EatAlive : \A t2 \in BagToSet(eat_task') :
           (EndsAs(t, t2) /\ InChain(t)) =>
              \A i \in 1..Len(t2.new_ids) :
                 ~InList(t2.new_ids[i], ContextOf(t.user).seen_ids)
      ]_vars

====
